---- MODULE Spec2Model ----
(***************************************************************************)
(* A model of src/app.py, the Streamlit dashboard "Nuclear Isotopes        *)
(* Economics".  Streamlit runs the whole script once per user interaction; *)
(* one action of this model is one interaction together with the script    *)
(* run(s) it causes.  The session state (st.session_state) and the values  *)
(* of the two selection widgets survive between runs; everything else is   *)
(* recomputed by each run.                                                  *)
(***************************************************************************)
EXTENDS Integers, Sequences, FiniteSets, TLC

VARIABLES
    session_state,  \* st.session_state: a function from the keys present to integers
    app_mode,       \* value of the sidebar radio "Navigation"
    sectors,        \* value of the selectbox "Select Sector"
    asset_present,  \* whether the file industrial_apps.jpg exists beside the script
    df,             \* the table returned by load_data() in the latest run
    page,           \* what the latest run put on the page
    answers,        \* history: the options clicked since the quiz (re)started
    last_event      \* history: the kind of the latest interaction

vars == <<session_state, app_mode, sectors, asset_present, df, page, answers, last_event>>

(***************************************************************************)
(* Python helpers                                                          *)
(***************************************************************************)

\* seq[i] with Python's zero-based subscript
At(seq, i) == seq[i + 1]

\* range(len(seq)), the indices enumerate(seq) yields
Indices(seq) == 0 .. (Len(seq) - 1)

(***************************************************************************)
(* Data provider                                                           *)
(***************************************************************************)

countries == <<"Canada", "Russia", "USA", "Netherlands", "South Africa", "China", "Japan", "India">>

production == <<38, 25, 15, 10, 8, 5, 3, 2>>

\* million procedures per year, in tenths (4.2 is written 42)
medical_use == <<42, 31, 40, 8, 5, 25, 18, 12>>

co2_savings == <<850, 620, 550, 180, 120, 420, 150, 200>>

\* pd.DataFrame({...}): one row per position of the four columns
load_data ==
    [i \in 1 .. Len(countries) |->
        [Country |-> countries[i],
         IsotopeProduction |-> production[i],
         MedicalProcedures |-> medical_use[i],
         CO2Savings |-> co2_savings[i]]]

(***************************************************************************)
(* Session state initialisation                                            *)
(***************************************************************************)

NoSession == [k \in {} |-> 0]

\* mutant: the counters are set to 0 on every run
InitSessionAlways(ss) ==
    [k \in DOMAIN ss \cup {"quiz_score", "current_question"} |-> 0]

\* if 'quiz_score' not in st.session_state: ... = 0, and the same for current_question
InitSession(ss) ==
    LET s1 == IF "quiz_score" \in DOMAIN ss THEN ss ELSE ss @@ ("quiz_score" :> 0)
    IN  IF "current_question" \in DOMAIN s1 THEN s1 ELSE s1 @@ ("current_question" :> 0)

(***************************************************************************)
(* Quiz questions                                                          *)
(***************************************************************************)

quiz_questions ==
    << [question |-> "What percentage of global medical isotopes are produced in research reactors?",
        options |-> <<"25%", "40%", "60%", "75%">>,
        answer |-> 1],
       [question |-> "Which sector uses the majority of industrial isotopes?",
        options |-> <<"Agriculture", "Material Testing", "Sterilization", "Oil Exploration">>,
        answer |-> 1],
       [question |-> "What's the projected CAGR for the isotopes market (2023-2030)?",
        options |-> <<"3.2%", "5.0%", "6.8%", "8.5%">>,
        answer |-> 2] >>

(***************************************************************************)
(* Widgets                                                                 *)
(***************************************************************************)

navigation_options ==
    <<"Global Dashboard", "Isotope Production", "Sector Applications",
      "Economic Analysis", "Interactive Quiz", "References">>

sector_options == <<"Medical", "Industrial", "Agricultural", "Space Technology">>

\* key=f"option_{i}" of the option buttons
option_keys == <<"option_0", "option_1", "option_2", "option_3">>

OptionKey(i) == At(option_keys, i)

RestartKey == "Restart Quiz"

\* no button was clicked in this run
NoClick == ""

(***************************************************************************)
(* The result of one script run                                            *)
(***************************************************************************)

\* a run that rendered a panel to its end, or up to an exception
Rendered(ss, d, title, body, buttons, metric, bar_x, status) ==
    [session_state |-> ss, df |-> d, rerun |-> FALSE,
     page |-> [title |-> title, body |-> body, buttons |-> buttons,
               metric |-> metric, bar_x |-> bar_x, status |-> status]]

\* a run cut short by st.experimental_rerun()
RerunRequested(ss, d) ==
    [session_state |-> ss, df |-> d, rerun |-> TRUE,
     page |-> [title |-> "", body |-> <<>>, buttons |-> {},
               metric |-> <<>>, bar_x |-> <<>>, status |-> "rerun"]]

(***************************************************************************)
(* Presentation panels                                                     *)
(***************************************************************************)

\* DataFrame.sort_values("Isotope Production (%)", ascending=False): a sorted copy
RECURSIVE InsertDescending(_, _)
InsertDescending(row, s) ==
    IF s = <<>> THEN <<row>>
    ELSE IF row.IsotopeProduction >= Head(s).IsotopeProduction THEN <<row>> \o s
    ELSE <<Head(s)>> \o InsertDescending(row, Tail(s))

RECURSIVE sort_values(_)
sort_values(d) ==
    IF d = <<>> THEN <<>> ELSE InsertDescending(Head(d), sort_values(Tail(d)))

\* DataFrame.head(n)
head(d, n) == SubSeq(d, 1, IF Len(d) < n THEN Len(d) ELSE n)

\* the x column of a bar chart of table d
BarX(d) == [i \in 1 .. Len(d) |-> d[i].Country]

\* mutant: the frame itself is replaced by its sorted top five
GlobalDashboardInPlace(ss, d) ==
    LET d1 == head(sort_values(d), 5)
    IN  Rendered(ss, d1, "Global Isotope Economics Dashboard",
                 <<"metric", "metric", "metric", "choropleth", "bar">>,
                 {}, <<>>, BarX(d1), "ok")

\* if app_mode == "Global Dashboard": metrics, world map, top producers
GlobalDashboard(ss, d) ==
    Rendered(ss, d, "Global Isotope Economics Dashboard",
             <<"metric", "metric", "metric", "choropleth", "bar">>,
             {}, <<>>, BarX(head(sort_values(d), 5)), "ok")

\* elif app_mode == "Isotope Production"
IsotopeProduction(ss, d) ==
    Rendered(ss, d, "Isotope Production Methods",
             <<"markdown", "markdown", "scatterpolar">>, {}, <<>>, <<>>, "ok")

\* the body below the selectbox "Select Sector"
SectorBody(sector, asset) ==
    IF sector = "Medical" THEN
        [body |-> <<"subheader", "markdown", "pie">>, status |-> "ok"]
    ELSE IF sector = "Industrial" THEN
        \* st.image opens the file; a missing file raises and ends the run
        IF asset THEN [body |-> <<"subheader", "markdown", "image">>, status |-> "ok"]
        ELSE [body |-> <<"subheader", "markdown">>, status |-> "exception"]
    ELSE
        \* no branch for the other sectors
        [body |-> <<>>, status |-> "ok"]

\* elif app_mode == "Sector Applications"
SectorApplications(ss, d, sector, asset) ==
    LET b == SectorBody(sector, asset)
    IN  Rendered(ss, d, "Sector Applications Analysis", b.body, {}, <<>>, <<>>, b.status)

\* elif app_mode == "Economic Analysis": two of the three tabs are filled
EconomicAnalysis(ss, d) ==
    Rendered(ss, d, "Economic Analysis",
             <<"line", "dataframe", "bar">>, {}, <<>>, <<>>, "ok")

\* else: References
References(ss, d) ==
    Rendered(ss, d, "References & Data Sources",
             <<"markdown", "divider", "markdown">>, {}, <<>>, <<>>, "ok")

(***************************************************************************)
(* Quiz                                                                    *)
(***************************************************************************)

\* mutant: every option counts as correct
OnOptionAlwaysCorrect(ss, i, question) ==
    [ss EXCEPT !["quiz_score"] = @ + 1, !["current_question"] = @ + 1]

\* mutant: a wrong option leaves the question in place
OnOptionStaysOnWrong(ss, i, question) ==
    IF i = question.answer
    THEN [ss EXCEPT !["quiz_score"] = @ + 1, !["current_question"] = @ + 1]
    ELSE ss

\* the body of "if cols[i % 2].button(option, ...)": score on a match, then advance
OnOption(ss, i, question) ==
    LET s1 == IF i = question.answer THEN [ss EXCEPT !["quiz_score"] = @ + 1] ELSE ss
    IN  [s1 EXCEPT !["current_question"] = @ + 1]

\* mutant: the question index is not reset
OnRestartKeepsIndex(ss) == [ss EXCEPT !["quiz_score"] = 0]

\* mutant: the score is not reset
OnRestartKeepsScore(ss) == [ss EXCEPT !["current_question"] = 0]

\* the body of 'if st.button("Restart Quiz")'
OnRestart(ss) == [ss EXCEPT !["quiz_score"] = 0, !["current_question"] = 0]

\* mutant: the restart button is drawn in both phases
QuizButtonsBoth(ss) ==
    IF ss["current_question"] < Len(quiz_questions)
    THEN {OptionKey(i) : i \in Indices(At(quiz_questions, ss["current_question"]).options)}
            \cup {RestartKey}
    ELSE {RestartKey}

\* the buttons the quiz panel draws: the options while asking, restart when completed
QuizButtons(ss) ==
    IF ss["current_question"] < Len(quiz_questions)
    THEN {OptionKey(i) : i \in Indices(At(quiz_questions, ss["current_question"]).options)}
    ELSE {RestartKey}

\* elif app_mode == "Interactive Quiz"; clicked is the button whose click caused the run
InteractiveQuiz(ss, d, clicked) ==
    IF ss["current_question"] < Len(quiz_questions) THEN
        LET question == At(quiz_questions, ss["current_question"])
            hit == {i \in Indices(question.options) : OptionKey(i) = clicked}
        IN  IF hit # {}
            THEN RerunRequested(OnOption(ss, CHOOSE i \in hit : TRUE, question), d)
            ELSE Rendered(ss, d, "Nuclear Isotopes Quiz", <<"subheader", "markdown">>,
                          QuizButtons(ss), <<>>, <<>>, "ok")
    ELSE
        IF clicked = RestartKey
        THEN RerunRequested(OnRestart(ss), d)
        ELSE Rendered(ss, d, "Nuclear Isotopes Quiz", <<"subheader", "metric">>,
                      QuizButtons(ss), <<ss["quiz_score"], Len(quiz_questions)>>, <<>>, "ok")

(***************************************************************************)
(* The script                                                              *)
(***************************************************************************)

\* mutant: the quiz label is misspelt, so that choice falls through to the else branch
mainMisspelt(ss, d, mode, sector, clicked, asset) ==
    IF mode = "Global Dashboard" THEN GlobalDashboard(ss, d)
    ELSE IF mode = "Isotope Production" THEN IsotopeProduction(ss, d)
    ELSE IF mode = "Sector Applications" THEN SectorApplications(ss, d, sector, asset)
    ELSE IF mode = "Economic Analysis" THEN EconomicAnalysis(ss, d)
    ELSE IF mode = "Interactive  Quiz" THEN InteractiveQuiz(ss, d, clicked)
    ELSE References(ss, d)

\* mutant: every panel but the quiz resets the quiz
mainResetsOffQuiz(ss, d, mode, sector, clicked, asset) ==
    IF mode = "Global Dashboard" THEN GlobalDashboard(OnRestart(ss), d)
    ELSE IF mode = "Isotope Production" THEN IsotopeProduction(OnRestart(ss), d)
    ELSE IF mode = "Sector Applications" THEN SectorApplications(OnRestart(ss), d, sector, asset)
    ELSE IF mode = "Economic Analysis" THEN EconomicAnalysis(OnRestart(ss), d)
    ELSE IF mode = "Interactive Quiz" THEN InteractiveQuiz(ss, d, clicked)
    ELSE References(OnRestart(ss), d)

\* main(): the if/elif/else on app_mode
main(ss, d, mode, sector, clicked, asset) ==
    IF mode = "Global Dashboard" THEN GlobalDashboard(ss, d)
    ELSE IF mode = "Isotope Production" THEN IsotopeProduction(ss, d)
    ELSE IF mode = "Sector Applications" THEN SectorApplications(ss, d, sector, asset)
    ELSE IF mode = "Economic Analysis" THEN EconomicAnalysis(ss, d)
    ELSE IF mode = "Interactive Quiz" THEN InteractiveQuiz(ss, d, clicked)
    ELSE References(ss, d)

\* one execution of the script, top to bottom
ScriptRun(ss, mode, sector, clicked, asset) ==
    main(InitSession(ss), load_data, mode, sector, clicked, asset)

\* an interaction: the run it causes and, after st.experimental_rerun(), the run
\* that follows with no button clicked
Interact(ss, mode, sector, clicked, asset) ==
    LET r == ScriptRun(ss, mode, sector, clicked, asset)
    IN  IF r.rerun THEN ScriptRun(r.session_state, mode, sector, NoClick, asset) ELSE r

\* the selectbox keeps its value only while the runs draw it
SectorWidget(mode, sector) ==
    IF mode = "Sector Applications" THEN sector ELSE Head(sector_options)

(***************************************************************************)
(* State machine                                                           *)
(***************************************************************************)

Elements(seq) == {seq[i] : i \in 1 .. Len(seq)}

\* the state shown after the run caused by an interaction
Show(mode, sector, clicked, hist, event) ==
    LET r == Interact(session_state, mode, sector, clicked, asset_present)
    IN  /\ session_state' = r.session_state
        /\ df' = r.df
        /\ page' = r.page
        /\ app_mode' = mode
        /\ sectors' = SectorWidget(mode, sector)
        /\ answers' = hist
        /\ last_event' = event
        /\ UNCHANGED asset_present

\* a new session: empty session state, widgets at their first option, first run
Init ==
    LET mode == Head(navigation_options)
        sector == Head(sector_options)
    IN  /\ asset_present \in BOOLEAN
        /\ LET r == Interact(NoSession, mode, sector, NoClick, asset_present)
           IN  /\ session_state = r.session_state
               /\ df = r.df
               /\ page = r.page
        /\ app_mode = mode
        /\ sectors = sector
        /\ answers = <<>>
        /\ last_event = "start"

\* the user picks another entry of the sidebar radio
SelectNavigation(choice) ==
    /\ choice # app_mode
    /\ Show(choice, SectorWidget(choice, sectors), NoClick, answers, "navigate")

\* the user picks another entry of the sector selectbox
SelectSector(s) ==
    /\ page.title = "Sector Applications Analysis"
    /\ s # sectors
    /\ Show(app_mode, s, NoClick, answers, "sector")

\* the user clicks option button o of the question shown
ClickOption(o) ==
    /\ OptionKey(o) \in page.buttons
    /\ Show(app_mode, sectors, OptionKey(o), Append(answers, o), "answer")

\* the user clicks "Restart Quiz"
Restart ==
    /\ RestartKey \in page.buttons
    /\ Show(app_mode, sectors, RestartKey, <<>>, "restart")

\* the user reruns the script without touching a widget
Rerun ==
    Show(app_mode, sectors, NoClick, answers, "rerun")

Next ==
    \/ \E choice \in Elements(navigation_options) : SelectNavigation(choice)
    \/ \E s \in Elements(sector_options) : SelectSector(s)
    \/ \E o \in Indices(option_keys) : ClickOption(o)
    \/ Restart
    \/ Rerun

Spec == Init /\ [][Next]_vars

(***************************************************************************)
(* Properties                                                              *)
(***************************************************************************)

quiz_score == session_state["quiz_score"]

current_question == session_state["current_question"]

QuizTitle == "Nuclear Isotopes Quiz"

SectorTitle == "Sector Applications Analysis"

\* C1: one click on option o while question i is asked leaves current_question = i+1
\* and adds 1 to quiz_score exactly when o is the answer index of question i.
C1_ClickAdvancesByOne ==
    [][\A o \in 0 .. 3 :
          ClickOption(o) =>
              /\ current_question \in 0 .. 2
              /\ session_state'["current_question"] = current_question + 1
              /\ session_state'["quiz_score"] =
                    quiz_score + (IF o = At(quiz_questions, current_question).answer
                                  THEN 1 ELSE 0)]_vars

C1_Witness ==
    /\ last_event = "answer"
    /\ answers = <<1, 0>>
    /\ current_question = 2
    /\ quiz_score = 1

\* the number of submitted options that match their question's answer index
Matches(hist) ==
    Cardinality({k \in 1 .. Len(hist) : hist[k] = quiz_questions[k].answer})

\* C2: the quiz is completed exactly after three submissions since the start, whatever
\* the answers, and the score is then the number of matching submissions
\* (correct, correct, incorrect gives 2).
C2_ThreeSubmissionsFinish ==
    /\ Len(answers) <= 3
    /\ current_question = Len(answers)
    /\ Len(answers) = 3 =>
          /\ current_question = 3
          /\ quiz_score = Matches(answers)
          /\ page.title = QuizTitle => page.metric = <<Matches(answers), 3>>
    /\ (Len(answers) = 3 /\ answers[1] = 1 /\ answers[2] = 1 /\ answers[3] # 2) => quiz_score = 2

C2_Witness ==
    /\ answers = <<1, 1, 0>>
    /\ current_question = 3
    /\ quiz_score = 2
    /\ page.title = QuizTitle
    /\ page.metric = <<2, 3>>

\* C3: a click on "Restart Quiz" yields quiz_score = 0 and current_question = 0,
\* with the first question shown, whatever the score was.
C3_RestartResets ==
    [][Restart =>
          /\ current_question = 3
          /\ session_state'["quiz_score"] = 0
          /\ session_state'["current_question"] = 0
          /\ page'.buttons = {"option_0", "option_1", "option_2", "option_3"}]_vars

C3_Witness ==
    /\ last_event = "restart"
    /\ quiz_score = 0
    /\ current_question = 0
    /\ page.title = QuizTitle

\* the page offers an answer submission
CanSubmit == \E o \in 0 .. 3 : ENABLED ClickOption(o)

\* the page offers a restart
CanRestart == ENABLED Restart

\* C4: only the transition of the current phase is offered: an answer only while a
\* question is asked, a restart only when the quiz is completed.
C4_OnlyCurrentPhase ==
    /\ CanSubmit => current_question < 3
    /\ CanRestart => current_question = 3
    /\ ~(CanSubmit /\ CanRestart)
    /\ page.title = QuizTitle => (CanSubmit \/ CanRestart)
    /\ \A k \in page.buttons : k = RestartKey <=> current_question = 3

C4_Witness ==
    /\ current_question = 3
    /\ page.title = QuizTitle
    /\ CanRestart
    /\ ~CanSubmit
    /\ last_event = "rerun"

\* C5: navigation, the sector selector and a rerun of the script leave quiz_score
\* and current_question as they were.
C5_OnlyQuizChangesState ==
    [][((\E c \in Elements(navigation_options) : SelectNavigation(c))
          \/ (\E s \in Elements(sector_options) : SelectSector(s))
          \/ Rerun)
        => /\ session_state'["quiz_score"] = quiz_score
           /\ session_state'["current_question"] = current_question]_vars

C5_Witness ==
    /\ last_event = "navigate"
    /\ app_mode = "Interactive Quiz"
    /\ current_question = 2
    /\ quiz_score = 1
    /\ page.buttons # {}

\* the panel that belongs to each navigation choice, by its title
PanelOf ==
    [c \in {"Global Dashboard", "Isotope Production", "Sector Applications",
            "Economic Analysis", "Interactive Quiz", "References"} |->
        CASE c = "Global Dashboard" -> "Global Isotope Economics Dashboard"
          [] c = "Isotope Production" -> "Isotope Production Methods"
          [] c = "Sector Applications" -> "Sector Applications Analysis"
          [] c = "Economic Analysis" -> "Economic Analysis"
          [] c = "Interactive Quiz" -> "Nuclear Isotopes Quiz"
          [] c = "References" -> "References & Data Sources"]

\* C6: each of the six navigation choices renders its own panel and no other.
C6_RouterOneToOne ==
    /\ app_mode \in DOMAIN PanelOf
    /\ page.title = PanelOf[app_mode]
    /\ \A c \in DOMAIN PanelOf : (page.title = PanelOf[c]) => c = app_mode

C6_Witness ==
    /\ last_event = "navigate"
    /\ app_mode = "References"
    /\ page.title = "References & Data Sources"

\* C7: with industrial_apps.jpg missing, the Industrial panel renders to its end with
\* something in the image's place, and raises nothing.
C7_MissingImageDegrades ==
    (page.title = SectorTitle /\ sectors = "Industrial" /\ ~asset_present)
        => (page.status = "ok" /\ Len(page.body) = 3)

\* C8: every run gets the same eight rows in the same order, each share in 0..100,
\* and no render changes the table.
C8_TableFixed ==
    /\ Len(df) = 8
    /\ BarX(df) = <<"Canada", "Russia", "USA", "Netherlands",
                    "South Africa", "China", "Japan", "India">>
    /\ [i \in 1 .. Len(df) |-> df[i].IsotopeProduction] = <<38, 25, 15, 10, 8, 5, 3, 2>>
    /\ \A i \in 1 .. Len(df) : df[i].IsotopeProduction \in 0 .. 100

C8_Witness ==
    /\ last_event = "navigate"
    /\ page.title = "Global Isotope Economics Dashboard"
    /\ page.bar_x = <<"Canada", "Russia", "USA", "Netherlands", "South Africa">>
    /\ Len(df) = 8

\* C9: 0 <= quiz_score <= current_question <= 3 in every state, and the score shown
\* at the end never exceeds 3.
C9_CountersInRange ==
    /\ 0 <= quiz_score
    /\ quiz_score <= current_question
    /\ current_question <= 3
    /\ page.metric # <<>> => (page.metric[1] <= 3 /\ page.metric[2] = 3)

C9_Witness ==
    /\ answers = <<1, 1, 2>>
    /\ quiz_score = 3
    /\ current_question = 3
    /\ page.metric = <<3, 3>>

\* C10: every sector the selector offers renders content below the selector.
C10_EverySectorHasBody ==
    page.title = SectorTitle => page.body # <<>>

====
